---- MODULE Spec2Model ----
(***************************************************************************)
(* Transcript acquisition handler of netlify/functions/youtubeTranscript.ts *)
(* modelled as a state machine: one invocation of `handler` walks through   *)
(* the direct fetch, the listing fetch, parseCaptionTracks / pickBestTrack  *)
(* and the track fetch, and ends with one HTTP response.                    *)
(*                                                                         *)
(* Text is a sequence of one-character strings so that trim, startsWith    *)
(* and truthiness are computed, not assumed.  An optional value is <<>>     *)
(* (absent) or <<v>> (present).  A JSON body is a record that has exactly   *)
(* the keys JSON.stringify emits (keys whose value is undefined are gone). *)
(***************************************************************************)
EXTENDS Integers, Sequences, FiniteSets, Bags, TLC

(* ---------------------------- bounds ----------------------------------- *)
\* longest caption payload the service returns
MaxBody == 2
\* largest number of markup elements in a listing document
MaxElems == 2
\* largest number of descriptors handed to pickBestTrack on its own
MaxTracks == 2
\* largest number of words in the vocabulary of an analysis
MaxVocab == 2
\* largest number of handleAnalyze calls waiting for the AI at once
MaxPending == 2
\* largest number of swipe callbacks scheduled and not yet run
MaxTimers == 2
\* largest number of entries the undo history is let grow to
MaxHistory == 3

(* ---------------------------- text ------------------------------------- *)
Str_en     == <<"e", "n">>
Str_enUS   == <<"e", "n", "-", "U", "S">>
Str_enGB   == <<"e", "n", "-", "G", "B">>
Str_enAU   == <<"e", "n", "-", "A", "U">>
Str_enm    == <<"e", "n", "m">>
Str_fr     == <<"f", "r">>
Str_forced == <<"f", "o", "r", "c", "e", "d">>
Str_asr    == <<"a", "s", "r">>
Str_direct == <<"d", "i", "r", "e", "c", "t">>
Str_vtt    == <<"v", "t", "t">>
Str_list   == <<"l", "i", "s", "t">>
Str_name   == <<"N">>
Str_vss    == <<"a", ".", "e", "n">>

Whitespace == {" ", "\n"}
Chars      == {" ", "a"}

\* the strings of length at most n over alphabet A
SeqsUpTo(A, n) == UNION {[1..k -> A] : k \in 0..n}

\* the payloads the service answers with: every short one, and one with a
\* run of white space inside
Bodies == SeqsUpTo(Chars, MaxBody) \cup {<<"a", " ", " ", "a">>}

Some(v) == <<v>>
None    == <<>>

RECURSIVE TrimStart(_)
TrimStart(s) ==
    IF s # <<>> /\ Head(s) \in Whitespace THEN TrimStart(Tail(s)) ELSE s

RECURSIVE TrimEnd(_)
TrimEnd(s) ==
    IF s # <<>> /\ s[Len(s)] \in Whitespace
    THEN TrimEnd(SubSeq(s, 1, Len(s) - 1)) ELSE s
\* trim that strips the front only
Trim_StartOnly(s) == TrimStart(s)

\* String.prototype.trim, as used on the direct and on the track payload
Trim(s) == TrimEnd(TrimStart(s))

\* JavaScript truthiness of a string
Truthy(s) == s # <<>>

(* ---------------------- listing documents ------------------------------ *)
\* A listing document is a sequence of markup elements.  An element is
\* written  <tag key="value" ... end  where end is "/>", ">" or nothing.
LangOpts == {Some(Str_enUS), Some(Str_fr)}
KindOpts == {None, Some(Str_asr)}

Attr(k, v) == [key |-> k, value |-> v]

AttrsOf(l, k, n) ==
    (IF l = None THEN <<>> ELSE <<Attr("lang_code", l[1])>>) \o
    (IF k = None THEN <<>> ELSE <<Attr("kind", k[1])>>) \o
    (IF n = None THEN <<>> ELSE <<Attr("name", n[1])>>)

Elem(tag, end, attrs) == [tag |-> tag, end |-> end, attrs |-> attrs]

\* self-closed track elements with a language code and every kind, two of
\* them also with a name; self-closed track elements with no language code
\* and with an empty one; one with an empty kind; a track element that is
\* not self-closed; an element that is not a track
Elements ==
    {Elem("track", "/>", AttrsOf(l, k, None)) : l \in LangOpts, k \in KindOpts} \cup
    {Elem("track", "/>", AttrsOf(Some(Str_enUS), None, Some(Str_name))),
     Elem("track", "/>", AttrsOf(Some(Str_fr), Some(Str_asr), Some(Str_name))),
     Elem("track", "/>", AttrsOf(None, Some(Str_asr), None)),
     Elem("track", "/>", AttrsOf(Some(<<>>), None, None)),
     Elem("track", "/>", AttrsOf(Some(Str_fr), Some(<<>>), None)),
     Elem("track", ">", AttrsOf(Some(Str_enUS), None, None)),
     Elem("other", "/>", AttrsOf(Some(Str_fr), None, None))}

Documents == SeqsUpTo(Elements, MaxElems)

\* the document as the token stream the two regular expressions scan
OpenTok(tag) == [t |-> "open", tag |-> tag, key |-> "", value |-> <<>>]
AttrTok(a)   == [t |-> "attr", tag |-> "", key |-> a.key, value |-> a.value]
EndTok(e)    == [t |-> e, tag |-> "", key |-> "", value |-> <<>>]

ElemTokens(e) ==
    <<OpenTok(e.tag)>> \o [i \in 1..Len(e.attrs) |-> AttrTok(e.attrs[i])] \o
    (IF e.end = "" THEN <<>> ELSE <<EndTok(e.end)>>)

RECURSIVE Tokens(_)
Tokens(doc) ==
    IF doc = <<>> THEN <<>> ELSE ElemTokens(Head(doc)) \o Tokens(Tail(doc))

(* ---------------------- parseCaptionTracks ------------------------------ *)
\* preferredEnglishLangs with "en" alone: every regional code is a variant
preferredEnglishLangs_OnlyEn == <<Str_en>>


preferredEnglishLangs == <<Str_en, Str_enUS, Str_enGB>>

Includes(list, v) == \E i \in 1..Len(list) : list[i] = v

StartsWith(s, p) == Len(s) >= Len(p) /\ SubSeq(s, 1, Len(p)) = p

\* index of the first "/>" or ">" after position i, 0 when there is none
FirstEnd(toks, i) ==
    LET ends == {j \in (i + 1)..Len(toks) : toks[j].t \in {"/>", ">"}}
    IN  IF ends = {} THEN 0 ELSE CHOOSE j \in ends : \A k \in ends : j <= k

\* trackRegex /<track\s+([^>]+?)\/>/ anchored at token i: "<track", then
\* white space (an attribute follows), then anything without ">" up to the
\* nearest "/>".  The result is the index of the closing "/>", 0 on no match.
TrackMatchEnd(toks, i) ==
    LET j == FirstEnd(toks, i)
    IN  IF /\ toks[i].t = "open" /\ toks[i].tag = "track"
           /\ i + 1 <= Len(toks) /\ toks[i + 1].t = "attr"
           /\ j # 0 /\ toks[j].t = "/>"
        THEN j ELSE 0

\* attrRegex /([a-zA-Z0-9_-]+)="([^"]*)"/g over the captured text:
\* raw[key] = value for every attribute in order, a later one overwriting
RECURSIVE RawAttrs(_)
RawAttrs(toks) ==
    IF toks = <<>> THEN [k \in {} |-> <<>>]
    ELSE LET last == toks[Len(toks)]
             rest == RawAttrs(SubSeq(toks, 1, Len(toks) - 1))
         IN  IF last.t = "attr" THEN (last.key :> last.value) @@ rest
             ELSE rest

\* the object pushed for one matched element
TrackOf(raw) ==
    [langCode |-> raw["lang_code"],
     name     |-> IF "name" \in DOMAIN raw /\ Truthy(raw["name"])
                  THEN raw["name"] ELSE <<>>]
    @@ (IF "kind" \in DOMAIN raw THEN "kind" :> raw["kind"]
        ELSE [k \in {} |-> <<>>])
    @@ (IF "vss_id" \in DOMAIN raw THEN "vssId" :> raw["vss_id"]
        ELSE [k \in {} |-> <<>>])

\* ParseFrom with unshift in place of push: the result is in reverse order
RECURSIVE ParseFrom_Reversed(_, _)
ParseFrom_Reversed(toks, i) ==
    IF i > Len(toks) THEN <<>>
    ELSE LET j == TrackMatchEnd(toks, i)
         IN  IF j = 0 THEN ParseFrom_Reversed(toks, i + 1)
             ELSE LET raw == RawAttrs(SubSeq(toks, i + 1, j - 1))
                  IN  ParseFrom_Reversed(toks, j + 1) \o
                      (IF "lang_code" \in DOMAIN raw /\ Truthy(raw["lang_code"])
                       THEN <<TrackOf(raw)>> ELSE <<>>)

\* the loop of parseCaptionTracks from token i on
RECURSIVE ParseFrom(_, _)
ParseFrom(toks, i) ==
    IF i > Len(toks) THEN <<>>
    ELSE LET j == TrackMatchEnd(toks, i)
         IN  IF j = 0 THEN ParseFrom(toks, i + 1)
             ELSE LET raw == RawAttrs(SubSeq(toks, i + 1, j - 1))
                  IN  (IF "lang_code" \in DOMAIN raw /\ Truthy(raw["lang_code"])
                       THEN <<TrackOf(raw)>> ELSE <<>>)
                      \o ParseFrom(toks, j + 1)

parseCaptionTracks(xml) == ParseFrom(Tokens(xml), 1)

(* ---------------------- scoreTrack, pickBestTrack ---------------------- *)
KindOf(track) == IF "kind" \in DOMAIN track THEN track.kind ELSE <<>>
\* scoreTrack with +10 for every kind that is not empty
scoreTrack_AnyKindIsAutomatic(track) ==
    LET lang             == track.langCode
        kind             == KindOf(track)
        isPreferred      == Includes(preferredEnglishLangs, lang)
        isEnglishVariant == ~isPreferred /\ StartsWith(lang, Str_en)
    IN  (IF isPreferred THEN 200 ELSE IF isEnglishVariant THEN 150 ELSE 50)
        + (IF ~Truthy(kind) THEN 20 ELSE 10)
\* scoreTrack with one more point for a track that has a name
scoreTrack_NameCounts(track) ==
    LET lang             == track.langCode
        kind             == KindOf(track)
        isPreferred      == Includes(preferredEnglishLangs, lang)
        isEnglishVariant == ~isPreferred /\ StartsWith(lang, Str_en)
    IN  (IF isPreferred THEN 200 ELSE IF isEnglishVariant THEN 150 ELSE 50)
        + (IF ~Truthy(kind) THEN 20 ELSE IF kind = Str_asr THEN 10 ELSE 0)
        + (IF Truthy(track.name) THEN 1 ELSE 0)
\* scoreTrack with the two kind bonuses exchanged
scoreTrack_KindSwapped(track) ==
    LET lang             == track.langCode
        kind             == KindOf(track)
        isPreferred      == Includes(preferredEnglishLangs, lang)
        isEnglishVariant == ~isPreferred /\ StartsWith(lang, Str_en)
    IN  (IF isPreferred THEN 200 ELSE IF isEnglishVariant THEN 150 ELSE 50)
        + (IF ~Truthy(kind) THEN 10 ELSE IF kind = Str_asr THEN 20 ELSE 0)


scoreTrack(track) ==
    LET lang             == track.langCode
        kind             == KindOf(track)
        isPreferred      == Includes(preferredEnglishLangs, lang)
        isEnglishVariant == ~isPreferred /\ StartsWith(lang, Str_en)
    IN  (IF isPreferred THEN 200 ELSE IF isEnglishVariant THEN 150 ELSE 50)
        + (IF ~Truthy(kind) THEN 20 ELSE IF kind = Str_asr THEN 10 ELSE 0)
\* InsertSorted of a sort that is not stable: an element goes in front of
\* the elements it ties with
RECURSIVE InsertSorted_Unstable(_, _)
InsertSorted_Unstable(sorted, x) ==
    IF sorted = <<>> THEN <<x>>
    ELSE IF Head(sorted).score > x.score
         THEN <<Head(sorted)>> \o InsertSorted_Unstable(Tail(sorted), x)
         ELSE <<x>> \o sorted

\* Array.prototype.sort with (a, b) => b.score - a.score: a stable sort by
\* descending score; an element goes behind every element it does not beat
RECURSIVE InsertSorted(_, _)
InsertSorted(sorted, x) ==
    IF sorted = <<>> THEN <<x>>
    ELSE IF Head(sorted).score >= x.score
         THEN <<Head(sorted)>> \o InsertSorted(Tail(sorted), x)
         ELSE <<x>> \o sorted

RECURSIVE SortByScore(_)
SortByScore(scored) ==
    IF scored = <<>> THEN <<>>
    ELSE InsertSorted(SortByScore(SubSeq(scored, 1, Len(scored) - 1)),
                      scored[Len(scored)])
\* pickBestTrack with the comparator reversed: the lowest score comes first
pickBestTrack_Lowest(tracks) ==
    IF Len(tracks) = 0 THEN None
    ELSE LET scored == SortByScore([i \in 1..Len(tracks) |->
                           [track |-> tracks[i], score |-> scoreTrack(tracks[i])]])
         IN  Some(scored[Len(scored)].track)

\* null is None, a track is Some(track)
pickBestTrack(tracks) ==
    IF Len(tracks) = 0 THEN None
    ELSE LET scored == SortByScore([i \in 1..Len(tracks) |->
                           [track |-> tracks[i], score |-> scoreTrack(tracks[i])]])
         IN  Some(scored[1].track)

(* ---------------------------- handler ----------------------------------- *)
VARIABLES
    pc,               \* where the invocation of handler is suspended
    event,            \* event.queryStringParameters of the invocation
    requests,         \* the outbound requests issued so far, in order
    directRes,        \* outcome of fetch(directUrl)
    directBody,       \* what directRes.text() resolved to, when it did
    directTranscript, \* let directTranscript
    listRes,          \* outcome of fetch(listUrl)
    listXml,          \* const listXml, once assigned
    tracks,           \* const tracks, once assigned
    bestTrack,        \* const bestTrack (None is null or not yet assigned)
    trackRes,         \* outcome of fetch(url) inside fetchTrackTranscript
    trackPayload,     \* the string fetchTrackTranscript resolved to
    trackTranscript,  \* const trackTranscript, once assigned
    response,         \* the value handler returned
    parked,           \* the locals of another invocation suspended at an await
    appState,         \* App: useState<AppState>('input')
    inputText,        \* App: useState('')
    inputType,        \* App: useState<InputType>('text')
    analysisResult,   \* App: useState<AnalysisResult | null>(null)
    learningQueue,    \* App: useState<VocabWord[]>([])
    error,            \* App: useState<string | null>(null)
    analyses,         \* the handleAnalyze calls suspended at await generateContent
    index,            \* LearningSession: useState(0)
    history,          \* LearningSession: useState<number[]>([])
    timers,           \* the setTimeout callbacks of handleSwipe not yet run
    keyIndex          \* the index in the closure of FlashCard's keydown listener

vars == <<pc, event, requests, directRes, directBody, directTranscript,
          listRes, listXml, tracks, bestTrack, trackRes, trackPayload,
          trackTranscript, response, parked, appState, inputText, inputType,
          analysisResult, learningQueue, error, analyses, index, history,
          timers, keyIndex>>

\* the variables of one invocation of handler
callVars == <<pc, event, requests, directRes, directBody, directTranscript,
              listRes, listXml, tracks, bestTrack, trackRes, trackPayload,
              trackTranscript, response>>

\* the state of the page
appVars == <<appState, inputText, inputType, analysisResult, learningQueue,
             error, analyses, index, history, timers, keyIndex>>

\* event.queryStringParameters: no videoId, an empty one, or a video id
Events == {[k \in {} |-> ""], [videoId |-> ""], [videoId |-> "abc123"]}

\* HTTP statuses the captioning service answers with
Statuses == {200, 404}

Ok(res) == res.status \in 200..299

NoRes == [fetch |-> "none", status |-> 0]

\* a fetch() either rejects or resolves to a response with a status
FetchResults ==
    {[fetch |-> "throws", status |-> 0]} \cup
    {[fetch |-> "resolves", status |-> st] : st \in Statuses}

NoResponse == [statusCode |-> 0, body |-> [k \in {} |-> ""]]

\* const videoId = event.queryStringParameters?.videoId
VideoIdOf(ev) == IF "videoId" \in DOMAIN ev THEN ev.videoId ELSE ""

CorsHeaders == {"Content-Type", "Access-Control-Allow-Origin"}

MissingVideoId ==
    [statusCode |-> 400, body |-> [error |-> "Missing videoId query parameter"]]

\* DirectHitResponse that answers without the text
DirectHitResponse_NoText(transcript) ==
    [statusCode |-> 200,
     body |-> [transcript |-> <<>>, lang |-> Str_en, kind |-> Str_direct]]

DirectHitResponse(transcript) ==
    [statusCode |-> 200,
     body |-> [transcript |-> transcript, lang |-> Str_en, kind |-> Str_direct]]
\* ListFailedResponse that passes the status of the listing on
ListFailedResponse_UpstreamStatus(res) ==
    [statusCode |-> res.status,
     body |-> [transcript |-> <<>>, reason |-> "list_request_failed",
               status |-> res.status]]

\* ListFailedResponse with the reason of the next stage
ListFailedResponse_WrongReason(res) ==
    [statusCode |-> 200,
     body |-> [transcript |-> <<>>, reason |-> "no_captions_tracks",
               status |-> res.status]]


ListFailedResponse(res) ==
    [statusCode |-> 200,
     body |-> [transcript |-> <<>>, reason |-> "list_request_failed",
               status |-> res.status]]

NoTracksResponse ==
    [statusCode |-> 200,
     body |-> [transcript |-> <<>>, reason |-> "no_captions_tracks"]]

\* JSON.stringify leaves out kind when bestTrack.kind is undefined
KindField(track) ==
    IF "kind" \in DOMAIN track THEN "kind" :> track.kind
    ELSE [k \in {} |-> <<>>]
\* EmptyCaptionsResponse without the lang and kind of the track
EmptyCaptionsResponse_NoProvenance(track) ==
    [statusCode |-> 200,
     body |-> [transcript |-> <<>>, reason |-> "empty_captions"]]


EmptyCaptionsResponse(track) ==
    [statusCode |-> 200,
     body |-> ("transcript" :> <<>>) @@ ("reason" :> "empty_captions") @@
              ("lang" :> track.langCode) @@ KindField(track)]
\* TrackHitResponse reporting the first listed track instead of the given one
TrackHitResponse_FirstListed(transcript, track) ==
    [statusCode |-> 200,
     body |-> ("transcript" :> transcript) @@ ("lang" :> tracks[1][1].langCode) @@
              KindField(tracks[1][1]) @@ ("trackName" :> tracks[1][1].name)]


TrackHitResponse(transcript, track) ==
    [statusCode |-> 200,
     body |-> ("transcript" :> transcript) @@ ("lang" :> track.langCode) @@
              KindField(track) @@ ("trackName" :> track.name)]

\* the outer catch
FailedResponse ==
    [statusCode |-> 500,
     body |-> [error |-> "Failed to fetch YouTube transcript",
               message |-> "fetch failed"]]

DirectRequest(v) ==
    [type |-> "direct", params |-> [lang |-> Str_en, v |-> v, fmt |-> Str_vtt]]

ListRequest(v) ==
    [type |-> "list", params |-> [type |-> Str_list, v |-> v]]

\* TrackRequest that sets the name parameter whatever the name
TrackRequest_NameAlways(v, track) ==
    [type |-> "track",
     params |-> ("v" :> v) @@ ("fmt" :> Str_vtt) @@ ("lang" :> track.langCode) @@
                (IF Truthy(KindOf(track)) THEN "kind" :> track.kind
                 ELSE [k \in {} |-> <<>>]) @@
                ("name" :> track.name)]

\* the URLSearchParams built by fetchTrackTranscript
TrackRequest(v, track) ==
    [type |-> "track",
     params |-> ("v" :> v) @@ ("fmt" :> Str_vtt) @@ ("lang" :> track.langCode) @@
                (IF Truthy(KindOf(track)) THEN "kind" :> track.kind
                 ELSE [k \in {} |-> <<>>]) @@
                (IF Truthy(track.name) THEN "name" :> track.name
                 ELSE [k \in {} |-> <<>>])]

\* the locals of an invocation that has not started
IdleCall ==
    [pc |-> "idle", event |-> [k \in {} |-> ""], requests |-> <<>>,
     directRes |-> NoRes, directBody |-> None, directTranscript |-> <<>>,
     listRes |-> NoRes, listXml |-> None, tracks |-> None, bestTrack |-> None,
     trackRes |-> NoRes, trackPayload |-> None, trackTranscript |-> None,
     response |-> NoResponse]

\* the page as createRoot(...).render(<App />) first shows it
AppIdle ==
    /\ appState = "input"
    /\ inputText = <<>>
    /\ inputType = "text"
    /\ analysisResult = None
    /\ learningQueue = <<>>
    /\ error = None
    /\ analyses = EmptyBag
    /\ index = 0
    /\ history = <<>>
    /\ timers = <<>>
    /\ keyIndex = 0

\* nothing else is running beside the invocation
RestIdle == parked = IdleCall /\ AppIdle

RestUnchanged == UNCHANGED <<parked, appVars>>

\* no invocation of handler is running
CallIdle ==
    /\ pc = "idle"
    /\ event = [k \in {} |-> ""]
    /\ requests = <<>>
    /\ directRes = NoRes
    /\ directBody = None
    /\ directTranscript = <<>>
    /\ listRes = NoRes
    /\ listXml = None
    /\ tracks = None
    /\ bestTrack = None
    /\ trackRes = NoRes
    /\ trackPayload = None
    /\ trackTranscript = None
    /\ response = NoResponse

Init == RestIdle /\ CallIdle

\* return <resp>
Finish(resp) ==
    /\ pc' = "done"
    /\ response' = resp
    /\ requests' = requests

\* await fetch(<req>)
Issue(req, at) ==
    /\ pc' = at
    /\ requests' = Append(requests, req)
    /\ response' = response
\* Invoke without the !videoId check
Invoke_NoIdCheck(ev) ==
    /\ pc \in {"idle", "done"}
    /\ event' = ev
    /\ directRes' = NoRes
    /\ directBody' = None
    /\ directTranscript' = <<>>
    /\ listRes' = NoRes
    /\ listXml' = None
    /\ tracks' = None
    /\ bestTrack' = None
    /\ trackRes' = NoRes
    /\ trackPayload' = None
    /\ trackTranscript' = None
    /\ pc' = "directFetch"
    /\ requests' = <<DirectRequest(VideoIdOf(ev))>>
    /\ response' = NoResponse

\* a new invocation: the videoId check, then the direct request goes out
Invoke(ev) ==
    /\ pc \in {"idle", "done"}
    /\ event' = ev
    /\ directRes' = NoRes
    /\ directBody' = None
    /\ directTranscript' = <<>>
    /\ listRes' = NoRes
    /\ listXml' = None
    /\ tracks' = None
    /\ bestTrack' = None
    /\ trackRes' = NoRes
    /\ trackPayload' = None
    /\ trackTranscript' = None
    /\ IF VideoIdOf(ev) = ""
       THEN /\ pc' = "done"
            /\ requests' = <<>>
            /\ response' = MissingVideoId
       ELSE /\ pc' = "directFetch"
            /\ requests' = <<DirectRequest(VideoIdOf(ev))>>
            /\ response' = NoResponse
\* AfterDirect without the early return: the listing is requested even on a hit
AfterDirect_AlwaysList(t) ==
    /\ directTranscript' = t
    /\ Issue(ListRequest(VideoIdOf(event)), "listFetch")

\* the code after the inner try/catch, with directTranscript = t
AfterDirect(t) ==
    /\ directTranscript' = t
    /\ IF Truthy(t) THEN Finish(DirectHitResponse(t))
       ELSE Issue(ListRequest(VideoIdOf(event)), "listFetch")
\* DirectFetchReturns without the inner try/catch: a rejection reaches the outer catch
DirectFetchReturns_NoCatch ==
    /\ pc = "directFetch"
    /\ \E r \in FetchResults :
          /\ directRes' = r
          /\ IF r.fetch = "throws"
             THEN /\ Finish(FailedResponse)
                  /\ UNCHANGED directTranscript
             ELSE IF Ok(r)
             THEN /\ pc' = "directText"
                  /\ UNCHANGED <<requests, response, directTranscript>>
             ELSE AfterDirect(<<>>)
    /\ UNCHANGED <<event, directBody, listRes, listXml, tracks, bestTrack,
                   trackRes, trackPayload, trackTranscript>>

\* await fetch(directUrl) settles
DirectFetchReturns ==
    /\ pc = "directFetch"
    /\ \E r \in FetchResults :
          /\ directRes' = r
          /\ IF r.fetch = "resolves" /\ Ok(r)
             THEN /\ pc' = "directText"
                  /\ UNCHANGED <<requests, response, directTranscript>>
             ELSE AfterDirect(<<>>)
    /\ UNCHANGED <<event, directBody, listRes, listXml, tracks, bestTrack,
                   trackRes, trackPayload, trackTranscript>>
\* DirectTextReturns without the .trim()
DirectTextReturns_NoTrim ==
    /\ pc = "directText"
    /\ \/ /\ directBody' = None
          /\ AfterDirect(<<>>)
       \/ \E b \in Bodies :
             /\ directBody' = Some(b)
             /\ AfterDirect(b)
    /\ UNCHANGED <<event, directRes, listRes, listXml, tracks, bestTrack,
                   trackRes, trackPayload, trackTranscript>>

\* await directRes.text() settles
DirectTextReturns ==
    /\ pc = "directText"
    /\ \/ /\ directBody' = None           \* rejected: the inner catch
          /\ AfterDirect(<<>>)
       \/ \E b \in Bodies :
             /\ directBody' = Some(b)
             /\ AfterDirect(Trim(b))
    /\ UNCHANGED <<event, directRes, listRes, listXml, tracks, bestTrack,
                   trackRes, trackPayload, trackTranscript>>
\* ListFetchReturns without the !listRes.ok check
ListFetchReturns_NoOkCheck ==
    /\ pc = "listFetch"
    /\ \E r \in FetchResults :
          /\ listRes' = r
          /\ IF r.fetch = "throws" THEN Finish(FailedResponse)
             ELSE /\ pc' = "listText"
                  /\ UNCHANGED <<requests, response>>
    /\ UNCHANGED <<event, directRes, directBody, directTranscript, listXml,
                   tracks, bestTrack, trackRes, trackPayload, trackTranscript>>

\* await fetch(listUrl) settles
ListFetchReturns ==
    /\ pc = "listFetch"
    /\ \E r \in FetchResults :
          /\ listRes' = r
          /\ IF r.fetch = "throws" THEN Finish(FailedResponse)
             ELSE IF ~Ok(r) THEN Finish(ListFailedResponse(r))
             ELSE /\ pc' = "listText"
                  /\ UNCHANGED <<requests, response>>
    /\ UNCHANGED <<event, directRes, directBody, directTranscript, listXml,
                   tracks, bestTrack, trackRes, trackPayload, trackTranscript>>
\* AfterList without the !bestTrack check: reading bestTrack.langCode of null
\* throws and the outer catch answers
AfterList_NoNullCheck(xml) ==
    LET parsed == parseCaptionTracks(xml)
        best   == pickBestTrack(parsed)
    IN  /\ listXml' = Some(xml)
        /\ tracks' = Some(parsed)
        /\ bestTrack' = best
        /\ IF best = None THEN Finish(FailedResponse)
           ELSE Issue(TrackRequest(VideoIdOf(event), best[1]), "trackFetch")

\* listXml = xml, then parseCaptionTracks, pickBestTrack and the null check
AfterList(xml) ==
    LET parsed == parseCaptionTracks(xml)
        best   == pickBestTrack(parsed)
    IN  /\ listXml' = Some(xml)
        /\ tracks' = Some(parsed)
        /\ bestTrack' = best
        /\ IF best = None THEN Finish(NoTracksResponse)
           ELSE Issue(TrackRequest(VideoIdOf(event), best[1]), "trackFetch")

\* await listRes.text() settles, the service answering with one of docs
ListTextReturnsOf(docs) ==
    /\ pc = "listText"
    /\ \/ /\ Finish(FailedResponse)        \* rejected: the outer catch
          /\ UNCHANGED <<listXml, tracks, bestTrack>>
       \/ \E xml \in docs : AfterList(xml)
    /\ UNCHANGED <<event, directRes, directBody, directTranscript, listRes,
                   trackRes, trackPayload, trackTranscript>>

ListTextReturns == ListTextReturnsOf(Documents)
\* AfterTrack without the !trackTranscript check
AfterTrack_NoEmptyCheck(payload) ==
    LET t == Trim(payload)
    IN  /\ trackPayload' = Some(payload)
        /\ trackTranscript' = Some(t)
        /\ Finish(TrackHitResponse(t, bestTrack[1]))

\* fetchTrackTranscript resolved to payload: trim, the empty check, return
AfterTrack(payload) ==
    LET t == Trim(payload)
    IN  /\ trackPayload' = Some(payload)
        /\ trackTranscript' = Some(t)
        /\ IF ~Truthy(t) THEN Finish(EmptyCaptionsResponse(bestTrack[1]))
           ELSE Finish(TrackHitResponse(t, bestTrack[1]))

\* await fetch(url) in fetchTrackTranscript settles
TrackFetchReturns ==
    /\ pc = "trackFetch"
    /\ \E r \in FetchResults :
          /\ trackRes' = r
          /\ IF r.fetch = "throws"
             THEN /\ Finish(FailedResponse)
                  /\ UNCHANGED <<trackPayload, trackTranscript>>
             ELSE IF ~Ok(r) THEN AfterTrack(<<>>)
             ELSE /\ pc' = "trackText"
                  /\ UNCHANGED <<requests, response, trackPayload,
                                 trackTranscript>>
    /\ UNCHANGED <<event, directRes, directBody, directTranscript, listRes,
                   listXml, tracks, bestTrack>>

\* res.text() in fetchTrackTranscript settles
TrackTextReturns ==
    /\ pc = "trackText"
    /\ \/ /\ Finish(FailedResponse)        \* rejected: the outer catch
          /\ UNCHANGED <<trackPayload, trackTranscript>>
       \/ \E b \in Bodies : AfterTrack(b)
    /\ UNCHANGED <<event, directRes, directBody, directTranscript, listRes,
                   listXml, tracks, bestTrack, trackRes>>

Next ==
    \/ (\E ev \in Events : Invoke(ev)) /\ RestUnchanged
    \/ DirectFetchReturns /\ RestUnchanged
    \/ DirectTextReturns /\ RestUnchanged
    \/ ListFetchReturns /\ RestUnchanged
    \/ ListTextReturns /\ RestUnchanged
    \/ TrackFetchReturns /\ RestUnchanged
    \/ TrackTextReturns /\ RestUnchanged

Spec == Init /\ [][Next]_vars

(* ---------------------- the direct-only handler ------------------------ *)
\* the handler that only makes the direct request, for an event, the way
\* fetch(url) settles (res) and the way res.text() settles (body, None when
\* it is rejected)
LegacyHandler(ev, res, body) ==
    IF VideoIdOf(ev) = "" THEN MissingVideoId
    ELSE IF res.fetch = "throws" THEN FailedResponse
    ELSE IF ~Ok(res)
    THEN [statusCode |-> res.status,
          body |-> [error |-> "Failed to fetch captions from YouTube",
                    status |-> res.status]]
    ELSE IF body = None THEN FailedResponse
    ELSE [statusCode |-> 200, body |-> [transcript |-> Trim(body[1])]]

(* ---------------------- pickBestTrack on its own ----------------------- *)
\* descriptors as parseCaptionTracks can produce them: a non-empty language
\* code, a name that may be empty, a kind that may be missing or empty
ScoreLangs == {Str_en, Str_enUS, Str_enGB, Str_enAU, Str_enm, Str_fr}
ScoreKinds == {None, Some(<<>>), Some(Str_asr), Some(Str_forced)}
ScoreNames == {<<>>, Str_name}

Descriptor(l, k, n) ==
    [langCode |-> l, name |-> n]
    @@ (IF k = None THEN [x \in {} |-> <<>>] ELSE "kind" :> k[1])

\* every language, kind and name, and two descriptors with a vss_id
Descriptors ==
    {Descriptor(l, k, n) : l \in ScoreLangs, k \in ScoreKinds, n \in ScoreNames}
    \cup {Descriptor(Str_enAU, Some(Str_asr), <<>>) @@ ("vssId" :> Str_vss),
          Descriptor(Str_fr, None, Str_name) @@ ("vssId" :> Str_vss)}

DescriptorSeqs == SeqsUpTo(Descriptors, MaxTracks)

\* pickBestTrack is about to be called with some sequence of descriptors
InitPick ==
    /\ RestIdle
    /\ pc = "pick"
    /\ tracks \in {Some(ts) : ts \in DescriptorSeqs}
    /\ bestTrack = None
    /\ event = [k \in {} |-> ""]
    /\ requests = <<>>
    /\ directRes = NoRes
    /\ directBody = None
    /\ directTranscript = <<>>
    /\ listRes = NoRes
    /\ listXml = None
    /\ trackRes = NoRes
    /\ trackPayload = None
    /\ trackTranscript = None
    /\ response = NoResponse

\* const bestTrack = pickBestTrack(tracks)
PickBest ==
    /\ pc = "pick"
    /\ pc' = "picked"
    /\ bestTrack' = pickBestTrack(tracks[1])
    /\ UNCHANGED <<event, requests, directRes, directBody, directTranscript,
                   listRes, listXml, tracks, trackRes, trackPayload,
                   trackTranscript, response>>

NextPick == PickBest /\ RestUnchanged

SpecPick == InitPick /\ [][NextPick]_vars

(* ---------------------- parseCaptionTracks on its own ------------------ *)
\* the elements of Elements and track elements cut off before their end
ParseElements ==
    Elements \cup
    {Elem("track", "", AttrsOf(Some(Str_fr), None, None)),
     Elem("track", "", AttrsOf(None, Some(Str_asr), None))}

ParseDocuments == SeqsUpTo(ParseElements, MaxElems)

\* parseCaptionTracks is about to be called with some document
InitParse ==
    /\ RestIdle
    /\ pc = "parse"
    /\ listXml \in {Some(xml) : xml \in ParseDocuments}
    /\ tracks = None
    /\ bestTrack = None
    /\ event = [k \in {} |-> ""]
    /\ requests = <<>>
    /\ directRes = NoRes
    /\ directBody = None
    /\ directTranscript = <<>>
    /\ listRes = NoRes
    /\ trackRes = NoRes
    /\ trackPayload = None
    /\ trackTranscript = None
    /\ response = NoResponse

\* const tracks = parseCaptionTracks(listXml)
ParseList ==
    /\ pc = "parse"
    /\ pc' = "parsed"
    /\ tracks' = Some(parseCaptionTracks(listXml[1]))
    /\ UNCHANGED <<event, requests, directRes, directBody, directTranscript,
                   listRes, listXml, bestTrack, trackRes, trackPayload,
                   trackTranscript, response>>

NextParse == ParseList /\ RestUnchanged

SpecParse == InitParse /\ [][NextParse]_vars

(* ---------------------- two invocations at once ------------------------ *)
\* Every variable of handler is a const or let of its body, so each
\* invocation has its own; the runtime runs one invocation at a time and
\* may take up another whenever the running one waits at an await.
Locals ==
    [pc |-> pc, event |-> event, requests |-> requests,
     directRes |-> directRes, directBody |-> directBody,
     directTranscript |-> directTranscript, listRes |-> listRes,
     listXml |-> listXml, tracks |-> tracks, bestTrack |-> bestTrack,
     trackRes |-> trackRes, trackPayload |-> trackPayload,
     trackTranscript |-> trackTranscript, response |-> response]
\* Switch with bestTrack declared outside handler: one for both invocations
Switch_SharedBestTrack ==
    /\ parked' = Locals
    /\ pc' = parked.pc
    /\ event' = parked.event
    /\ requests' = parked.requests
    /\ directRes' = parked.directRes
    /\ directBody' = parked.directBody
    /\ directTranscript' = parked.directTranscript
    /\ listRes' = parked.listRes
    /\ listXml' = parked.listXml
    /\ tracks' = parked.tracks
    /\ bestTrack' = bestTrack
    /\ trackRes' = parked.trackRes
    /\ trackPayload' = parked.trackPayload
    /\ trackTranscript' = parked.trackTranscript
    /\ response' = parked.response

\* the running invocation waits and the runtime takes up the other one
Switch ==
    /\ parked' = Locals
    /\ pc' = parked.pc
    /\ event' = parked.event
    /\ requests' = parked.requests
    /\ directRes' = parked.directRes
    /\ directBody' = parked.directBody
    /\ directTranscript' = parked.directTranscript
    /\ listRes' = parked.listRes
    /\ listXml' = parked.listXml
    /\ tracks' = parked.tracks
    /\ bestTrack' = parked.bestTrack
    /\ trackRes' = parked.trackRes
    /\ trackPayload' = parked.trackPayload
    /\ trackTranscript' = parked.trackTranscript
    /\ response' = parked.response

\* the two invocations are for different videos
CallEvents == {[videoId |-> "abc123"], [videoId |-> "xyz789"]}

\* what the service answers the two invocations with: a few of the
\* payloads and of the listing documents
CallBodies == {<<>>, <<"a">>, <<" ", "a">>}

CallDocuments ==
    {<<>>,
     <<Elem("track", "/>", AttrsOf(Some(Str_enUS), None, None))>>,
     <<Elem("track", "/>", AttrsOf(Some(Str_fr), None, None)),
       Elem("track", "/>", AttrsOf(Some(Str_enUS), Some(Str_asr), None))>>,
     <<Elem("track", "/>", AttrsOf(Some(Str_fr), Some(Str_asr), Some(Str_name)))>>}

CallInputs(body, xml, payload) ==
    /\ IF body = None THEN TRUE ELSE body[1] \in CallBodies
    /\ IF xml = None THEN TRUE ELSE xml[1] \in CallDocuments
    /\ IF payload = None THEN TRUE ELSE payload[1] \in CallBodies

\* a step of the running invocation
CallStep(A) ==
    /\ A
    /\ CallInputs(directBody', listXml', trackPayload')
    /\ UNCHANGED <<parked, appVars>>

InitCalls == Init

NextCalls ==
    \/ \E ev \in CallEvents :
          /\ ev.videoId # VideoIdOf(parked.event)
          /\ CallStep(Invoke(ev))
    \/ CallStep(DirectFetchReturns)
    \/ CallStep(DirectTextReturns)
    \/ CallStep(ListFetchReturns)
    \/ CallStep(ListTextReturnsOf(CallDocuments))
    \/ CallStep(TrackFetchReturns)
    \/ CallStep(TrackTextReturns)
    \/ Switch /\ UNCHANGED appVars

SpecCalls == InitCalls /\ [][NextCalls]_vars

(* ------------------------------ the page -------------------------------- *)
Str_youtubeUrl == <<"y", "o", "u", "t", "u", ".", "b", "e", "/", "d", "Q", "w", "4", "w", "9", "W", "g", "X", "c", "Q">>
Str_webUrl     == <<"a", ".", "i", "o", "/", "v", "/", "x">>
Str_aid        == <<"a", "i", "d">>
Str_apex       == <<"a", "p", "e", "x">>
Str_apt        == <<"a", "p", "t">>
Str_chaos      == <<"c", "h", "a", "o", "s">>
Str_arbitrary  == <<"a", "r", "b", "i", "t", "r", "a", "r", "y">>
Str_bilateral  == <<"b", "i", "l", "a", "t", "e", "r", "a", "l">>
Str_Antarctica == <<"A", "n", "t", "a", "r", "c", "t", "i", "c", "a">>
Str_grok       == <<"g", "r", "o", "k">>

\* what the user can have in the text area
InputTexts == {<<>>, <<" ">>, Str_youtubeUrl}

\* the input modes the three buttons of InputSection choose from
InputTypes == {"text", "url", "file"}

Difficulties == {"Beginner", "Intermediate", "Advanced"}

UpperCase == <<"A", "B", "C", "D", "E", "F", "G", "H", "I", "J", "K", "L", "M", "N", "O", "P", "Q", "R", "S", "T", "U", "V", "W", "X", "Y", "Z">>
LowerCase == <<"a", "b", "c", "d", "e", "f", "g", "h", "i", "j", "k", "l", "m", "n", "o", "p", "q", "r", "s", "t", "u", "v", "w", "x", "y", "z">>

\* String.prototype.toLowerCase on the letters A to Z
ToLowerCase(w) ==
    [i \in 1..Len(w) |->
        IF \E k \in 1..26 : UpperCase[k] = w[i]
        THEN LowerCase[CHOOSE k \in 1..26 : UpperCase[k] = w[i]]
        ELSE w[i]]

\* some of the members of the three word lists
CET4_WORDS     == {Str_aid, Str_arbitrary, Str_chaos}
CET6_WORDS     == {Str_apt, Str_bilateral, Str_chaos, Str_Antarctica}
ADVANCED_WORDS == {Str_apex, Str_arbitrary, Str_bilateral}

\* getWordLevel that looks into the CET6 list first
getWordLevel_CET6First(word) ==
    LET w == ToLowerCase(word)
    IN  IF w \in CET6_WORDS THEN "CET6"
        ELSE IF w \in CET4_WORDS THEN "CET4"
        ELSE IF w \in ADVANCED_WORDS THEN "Advanced"
        ELSE "Unknown"

getWordLevel(word) ==
    LET w == ToLowerCase(word)
    IN  IF w \in CET4_WORDS THEN "CET4"
        ELSE IF w \in CET6_WORDS THEN "CET6"
        ELSE IF w \in ADVANCED_WORDS THEN "Advanced"
        ELSE "Unknown"

levelToDifficulty(level) ==
    CASE level = "CET4"     -> "Beginner"
      [] level = "CET6"     -> "Intermediate"
      [] level = "Advanced" -> "Advanced"
      [] OTHER              -> "Intermediate"

\* one element of the regular expression of getYouTubeId against one character
PatternChar(p, c) ==
    CASE p = "."   -> c # "\n"
      [] p = "\\w" -> c \notin {"/", ".", "?", "=", "&", "#", ":", " ", "-", "\n"}
      [] OTHER     -> p = c

\* the alternatives (youtu.be\/|v\/|u\/\w\/|embed\/|watch\?v=|&v=), in order
YouTubeMarkers ==
    <<<<"y", "o", "u", "t", "u", ".", "b", "e", "/">>,
      <<"v", "/">>,
      <<"u", "/", "\\w", "/">>,
      <<"e", "m", "b", "e", "d", "/">>,
      <<"w", "a", "t", "c", "h", "?", "v", "=">>,
      <<"&", "v", "=">>>>

MarkerAt(url, i, m) ==
    /\ i + Len(m) - 1 <= Len(url)
    /\ \A k \in 1..Len(m) : PatternChar(m[k], url[i + k - 1])

\* the longest stretch of characters other than # & ? from position i on
RECURSIVE IdFrom(_, _)
IdFrom(url, i) ==
    IF i > Len(url) \/ url[i] \in {"#", "&", "?"} THEN <<>>
    ELSE <<url[i]>> \o IdFrom(url, i + 1)

\* /^.*(markers)([^#&?]*).*/ : the greedy .* takes the last place a marker
\* starts at; the id is what follows it, and counts if it has 11 characters
getYouTubeId(url) ==
    LET starts == {i \in 1..Len(url) :
                      \E n \in 1..Len(YouTubeMarkers) :
                          MarkerAt(url, i, YouTubeMarkers[n])}
    IN  IF starts = {} THEN None
        ELSE LET i  == CHOOSE a \in starts : \A b \in starts : b <= a
                 n  == CHOOSE a \in 1..Len(YouTubeMarkers) :
                          /\ MarkerAt(url, i, YouTubeMarkers[a])
                          /\ \A b \in 1..(a - 1) :
                                ~MarkerAt(url, i, YouTubeMarkers[b])
                 id == IdFrom(url, i + Len(YouTubeMarkers[n]))
             IN  IF Len(id) = 11 THEN Some(id) ELSE None

\* the words the AI finds, each with the difficulty the AI gives it, which
\* is not the one of the local lists
VocabWords ==
    {Str_aid, <<"A", "i", "d">>, Str_chaos, <<"C", "H", "A", "O", "S">>, Str_arbitrary, Str_bilateral,
     Str_apt, Str_apex, <<"A", "p", "e", "x">>, Str_Antarctica, <<"a", "n", "t", "a", "r", "c", "t", "i", "c", "a">>, Str_grok}

AiWords == {[word |-> Str_aid, difficulty |-> "Advanced"],
            [word |-> Str_apex, difficulty |-> "Intermediate"]}

\* what await ai.models.generateContent(...) ends in: it throws, the
\* response has no text, the text is not JSON, or it is an analysis
AiResponses ==
    {[kind |-> k, vocabulary |-> <<>>] : k \in {"throws", "noText", "badJson"}}
    \cup {[kind |-> "json", vocabulary |-> v] : v \in SeqsUpTo(AiWords, MaxVocab)}

\* e.message in the catch of handleAnalyze
MessageOf(kind) ==
    CASE kind = "throws"  -> "fetch failed"
      [] kind = "noText"  -> "No response from AI"
      [] kind = "badJson" -> "Unexpected token"

\* levelToDifficulty(getWordLevel(word)) of the words the AI finds
LocalDifficulty ==
    [w \in VocabWords |-> levelToDifficulty(getWordLevel(w))]

\* result.vocabulary.map(word => ({...word, difficulty: ...}))
Regrade(vocabulary) ==
    [i \in 1..Len(vocabulary) |->
        [word       |-> vocabulary[i].word,
         difficulty |-> LocalDifficulty[vocabulary[i].word]]]

\* what a call of handleAnalyze keeps across its await: isUrl, youtubeId
\* and inputText as they were when the button was clicked
AnalyzeCall(text, type) ==
    LET isUrl     == type = "url"
        youtubeId == IF isUrl THEN getYouTubeId(text) ELSE None
    IN  [isUrl     |-> isUrl,
         youtube   |-> youtubeId # None,
         sourceUrl |-> IF isUrl THEN Some(text) ELSE None,
         latest    |-> TRUE]

\* the result handleAnalyze stores for a call and an analysis of the AI
ResultOf(call, vocabulary) ==
    [vocabulary |-> Regrade(vocabulary),
     sourceType |-> IF call.isUrl
                    THEN (IF call.youtube THEN "youtube" ELSE "web")
                    ELSE "text",
     sourceUrl  |-> call.sourceUrl]

\* the calls in flight once another call has been made after them
Superseded(calls) ==
    LET old == {[c EXCEPT !.latest = FALSE] : c \in BagToSet(calls)}
    IN  [c \in old |->
            CopiesIn(c, calls) + CopiesIn([c EXCEPT !.latest = TRUE], calls)]

(* ------------------------------ App ------------------------------------- *)
\* a swipe callback whose LearningSession is gone: its setIndex and
\* setHistory do nothing, only a call of onFinish still has an effect
DeadTimer == [index |-> 0, len |-> 0, live |-> FALSE]

\* handleNext of the closure: index < queue.length - 1, or else onFinish()
Advances(t) == t.index < t.len - 1

RECURSIVE DeadTimers(_)
DeadTimers(ts) ==
    IF ts = <<>> THEN <<>>
    ELSE (IF Advances(Head(ts)) THEN <<>> ELSE <<DeadTimer>>)
         \o DeadTimers(Tail(ts))

\* LearningSession is not rendered (any more): its state is lost
Unmounted(ts) ==
    /\ index' = 0
    /\ history' = <<>>
    /\ keyIndex' = 0
    /\ timers' = DeadTimers(ts)

\* a card is on the screen: LearningSession is rendered and has a currentWord
CardShown == appState = "learning" /\ index < Len(learningQueue)

\* the index the keydown listener has after index has become i: FlashCard
\* has key={currentWord.word}, so it is mounted anew, and its listener with
\* it, only when the word changes
KeyIndexAfter(i) ==
    IF /\ CardShown /\ i < Len(learningQueue)
       /\ learningQueue[i + 1].word = learningQueue[index + 1].word
    THEN keyIndex ELSE i

\* onChange of the text area
SetInputText(t) ==
    /\ appState = "input"
    /\ inputText' = t
    /\ UNCHANGED <<appState, inputType, analysisResult, learningQueue, error,
                   analyses, index, history, timers, keyIndex>>

\* the Text, Link / URL and Upload buttons
SetInputType(t) ==
    /\ appState = "input"
    /\ inputType' = t
    /\ UNCHANGED <<appState, inputText, analysisResult, learningQueue, error,
                   analyses, index, history, timers, keyIndex>>

\* handleAnalyze up to its await
handleAnalyze ==
    /\ appState = "input"
    /\ Truthy(Trim(inputText))
    /\ BagCardinality(analyses) < MaxPending
    /\ appState' = "processing"
    /\ error' = None
    /\ analyses' = Superseded(analyses) (+)
                       SetToBag({AnalyzeCall(inputText, inputType)})
    /\ UNCHANGED <<inputText, inputType, analysisResult, learningQueue, index,
                   history, timers, keyIndex>>

\* handleAnalyze whose catch also forgets the analysis it had
AnalysisReturns_FailureClearsResult(call, resp) ==
    /\ BagIn(call, analyses)
    /\ analyses' = analyses (-) SetToBag({call})
    /\ IF resp.kind = "json"
       THEN /\ analysisResult' = Some(ResultOf(call, resp.vocabulary))
            /\ appState' = "dashboard"
            /\ UNCHANGED error
       ELSE /\ error' = Some("Analysis failed. Please try again. "
                                \o MessageOf(resp.kind))
            /\ appState' = "input"
            /\ analysisResult' = None
    /\ Unmounted(timers)
    /\ UNCHANGED <<inputText, inputType, learningQueue>>

\* handleAnalyze from its await on, for one of the calls in flight
AnalysisReturns(call, resp) ==
    /\ BagIn(call, analyses)
    /\ analyses' = analyses (-) SetToBag({call})
    /\ IF resp.kind = "json"
       THEN /\ analysisResult' = Some(ResultOf(call, resp.vocabulary))
            /\ appState' = "dashboard"
            /\ UNCHANGED error
       ELSE /\ error' = Some("Analysis failed. Please try again. "
                                \o MessageOf(resp.kind))
            /\ appState' = "input"
            /\ UNCHANGED analysisResult
    /\ Unmounted(timers)
    /\ UNCHANGED <<inputText, inputType, learningQueue>>

\* the words of vocabulary that startLearning(level) takes
Filtered(vocabulary, level) ==
    LET OfLevel(w) == w.difficulty = level
    IN  IF level = "All" THEN vocabulary ELSE SelectSeq(vocabulary, OfLevel)

\* startLearning that goes on although no word has the level
startLearning_NoEmptyCheck(level) ==
    /\ appState = "dashboard"
    /\ analysisResult # None
    /\ learningQueue' = Filtered(analysisResult[1].vocabulary, level)
    /\ appState' = "learning"
    /\ UNCHANGED <<inputText, inputType, analysisResult, error, analyses,
                   index, history, timers, keyIndex>>

startLearning(level) ==
    /\ appState = "dashboard"
    /\ analysisResult # None
    /\ LET filtered == Filtered(analysisResult[1].vocabulary, level)
       IN  IF Len(filtered) = 0
           THEN UNCHANGED <<appState, learningQueue>>      \* alert(...)
           ELSE /\ learningQueue' = filtered
                /\ appState' = "learning"
    /\ UNCHANGED <<inputText, inputType, analysisResult, error, analyses,
                   index, history, timers, keyIndex>>

\* onClick of the logo, and onBack of Dashboard
BackToInput ==
    /\ appState' = "input"
    /\ Unmounted(timers)
    /\ UNCHANGED <<inputText, inputType, analysisResult, learningQueue, error,
                   analyses>>

LogoClick == BackToInput

DashboardBack == appState = "dashboard" /\ BackToInput

\* the Dismiss button
DismissError ==
    /\ error # None
    /\ error' = None
    /\ UNCHANGED <<appState, inputText, inputType, analysisResult,
                   learningQueue, analyses, index, history, timers, keyIndex>>

\* onFinish={() => setAppState('dashboard')}, the callbacks left over being ts
onFinish(ts) ==
    /\ appState' = "dashboard"
    /\ Unmounted(ts)
    /\ UNCHANGED <<inputText, inputType, analysisResult, learningQueue, error,
                   analyses>>

\* the EXIT button
ExitClick == CardShown /\ onFinish(timers)

\* handleSwipe of a render of FlashCard whose onGotIt and onForgot are the
\* handleNext of the render of LearningSession that had index i
handleSwipe(i) ==
    /\ Len(timers) < MaxTimers
    /\ Len(history) + Len(timers) < MaxHistory
    /\ timers' = Append(timers, [index |-> i, len |-> Len(learningQueue),
                                 live |-> TRUE])
    /\ UNCHANGED <<appState, inputText, inputType, analysisResult,
                   learningQueue, error, analyses, index, history, keyIndex>>

\* ArrowRight or ArrowLeft: the listener the mounting of FlashCard added
handleKeyDown == CardShown /\ handleSwipe(keyIndex)

\* GOT IT, FORGOT, or a touch that ends more than 100 px away
SwipeCard == CardShown /\ handleSwipe(index)

\* 200 ms later: the callbacks run in the order they were scheduled in
TimerFires ==
    /\ timers # <<>>
    /\ LET t == Head(timers)
       IN  IF t.live /\ Advances(t)
           THEN /\ history' = Append(history, t.index)
                /\ index' = index + 1
                /\ keyIndex' = KeyIndexAfter(index + 1)
                /\ timers' = Tail(timers)
                /\ UNCHANGED <<appState, inputText, inputType, analysisResult,
                               learningQueue, error, analyses>>
           ELSE onFinish(Tail(timers))

\* the undo button
handlePrev ==
    /\ CardShown
    /\ Len(history) > 0
    /\ index' = history[Len(history)]
    /\ history' = SubSeq(history, 1, Len(history) - 1)
    /\ keyIndex' = KeyIndexAfter(history[Len(history)])
    /\ UNCHANGED <<appState, inputText, inputType, analysisResult,
                   learningQueue, error, analyses, timers>>

\* nothing but the page changes
PageStep(A) == A /\ UNCHANGED <<callVars, parked>>

\* the page from its first render on, the cards left alone but for EXIT
InitApp == Init

NextAppOf(responses) ==
    \/ \E t \in InputTexts : PageStep(SetInputText(t))
    \/ \E t \in InputTypes : PageStep(SetInputType(t))
    \/ PageStep(handleAnalyze)
    \/ \E call \in BagToSet(analyses), resp \in responses :
          PageStep(AnalysisReturns(call, resp))
    \/ \E level \in Difficulties \cup {"All"} : PageStep(startLearning(level))
    \/ PageStep(LogoClick)
    \/ PageStep(DashboardBack)
    \/ PageStep(DismissError)
    \/ PageStep(ExitClick)

NextApp == NextAppOf(AiResponses)

SpecApp == InitApp /\ [][NextApp]_vars

\* the page with analyses that fail or find at most one word
ShortResponses == {resp \in AiResponses : Len(resp.vocabulary) <= 1}

InitFailure == Init

NextFailure == NextAppOf(ShortResponses)

SpecFailure == InitFailure /\ [][NextFailure]_vars

\* one analysis of a pasted text, the AI finding any of the words and giving
\* each any difficulty
GradeResponses ==
    {[kind |-> "json", vocabulary |-> v] :
        v \in SeqsUpTo({[word |-> w, difficulty |-> d] :
                            w \in VocabWords, d \in Difficulties}, MaxVocab)}

InitGrade ==
    /\ CallIdle
    /\ parked = IdleCall
    /\ appState = "processing"
    /\ inputText = Str_webUrl
    /\ inputType = "text"
    /\ analysisResult = None
    /\ learningQueue = <<>>
    /\ error = None
    /\ analyses = SetToBag({AnalyzeCall(Str_webUrl, "text")})
    /\ index = 0
    /\ history = <<>>
    /\ timers = <<>>
    /\ keyIndex = 0

NextGrade ==
    \E call \in BagToSet(analyses), resp \in GradeResponses :
        PageStep(AnalysisReturns(call, resp))

SpecGrade == InitGrade /\ [][NextGrade]_vars

\* the dashboard of a web page that has been analysed
SessionResults ==
    {ResultOf(AnalyzeCall(Str_webUrl, "url"), resp.vocabulary) :
        resp \in {r \in AiResponses : r.kind = "json"}}

InitSession ==
    /\ CallIdle
    /\ parked = IdleCall
    /\ appState = "dashboard"
    /\ inputText = Str_webUrl
    /\ inputType = "url"
    /\ analysisResult \in {Some(r) : r \in SessionResults}
    /\ learningQueue = <<>>
    /\ error = None
    /\ analyses = EmptyBag
    /\ index = 0
    /\ history = <<>>
    /\ timers = <<>>
    /\ keyIndex = 0

NextSession ==
    \/ \E level \in Difficulties \cup {"All"} : PageStep(startLearning(level))
    \/ PageStep(LogoClick)
    \/ PageStep(DashboardBack)
    \/ PageStep(ExitClick)
    \/ PageStep(handleKeyDown)
    \/ PageStep(SwipeCard)
    \/ PageStep(TimerFires)
    \/ PageStep(handlePrev)

SpecSession == InitSession /\ [][NextSession]_vars

(* ---------------------------- outcomes --------------------------------- *)
\* the outcome of the acquisition a response stands for
Outcome(resp) ==
    IF resp.statusCode # 200 THEN "Fault"
    ELSE IF "reason" \in DOMAIN resp.body
         THEN CASE resp.body.reason = "list_request_failed" -> "ListUnavailable"
                [] resp.body.reason = "no_captions_tracks"  -> "NoTracksFound"
                [] resp.body.reason = "empty_captions"      -> "EmptyTrackPayload"
         ELSE IF "trackName" \in DOMAIN resp.body THEN "TrackHit"
         ELSE "DirectHit"

TypeOK ==
    /\ pc \in {"idle", "directFetch", "directText", "listFetch", "listText",
               "trackFetch", "trackText", "done", "pick", "picked", "parse",
               "parsed"}
    /\ event \in Events
    /\ Len(requests) <= 3
    /\ response.statusCode \in {0, 200, 400, 500}

(* ---------------------------- properties ------------------------------- *)
\* the kinds of the requests issued so far, in order
ReqTypes == [i \in 1..Len(requests) |-> requests[i].type]

\* TranscriptResult.text of a response
TextOf(resp) ==
    IF "transcript" \in DOMAIN resp.body THEN resp.body.transcript ELSE <<>>

HasVideoId == VideoIdOf(event) # ""

IsBlank(s) == \A i \in 1..Len(s) : s[i] \in Whitespace

\* t is s without its leading and trailing white space
IsTrimOf(t, s) ==
    /\ t = <<>> \/ (t[1] \notin Whitespace /\ t[Len(t)] \notin Whitespace)
    /\ \E i \in 0..Len(s) :
          /\ i + Len(t) <= Len(s)
          /\ SubSeq(s, i + 1, i + Len(t)) = t
          /\ IsBlank(SubSeq(s, 1, i))
          /\ IsBlank(SubSeq(s, i + Len(t) + 1, Len(s)))

\* the descriptor the scorer selects from the listing document received
Selected == pickBestTrack(parseCaptionTracks(listXml[1]))[1]

\* lang and kind of a response body are those of track
ProvenanceOf(body, track) ==
    /\ "lang" \in DOMAIN body /\ body.lang = track.langCode
    /\ ("kind" \in DOMAIN body) <=> ("kind" \in DOMAIN track)
    /\ "kind" \in DOMAIN body => body.kind = track.kind

\* C1: a finished acquisition call has non-empty text exactly when its
\* outcome is DirectHit or TrackHit; NoTracksFound, EmptyTrackPayload and
\* ListUnavailable carry empty text.
C1_TextIffHit ==
    (pc = "done" /\ HasVideoId) =>
        /\ (TextOf(response) # <<>>) <=>
               (Outcome(response) \in {"DirectHit", "TrackHit"})
        /\ Outcome(response) \in {"NoTracksFound", "EmptyTrackPayload",
                                  "ListUnavailable"}
               => /\ "transcript" \in DOMAIN response.body
                  /\ response.body.transcript = <<>>

C1_Witness ==
    /\ pc = "done" /\ HasVideoId
    /\ Outcome(response) = "TrackHit"
    /\ TextOf(response) # <<>>
    /\ trackPayload[1] # TextOf(response)

StageRank(p) ==
    CASE p = "idle" -> 0
      [] p = "directFetch" -> 1 [] p = "directText" -> 2
      [] p = "listFetch" -> 3   [] p = "listText" -> 4
      [] p = "trackFetch" -> 5  [] p = "trackText" -> 6
      [] p = "done" -> 7

\* state part of C2: what has been requested, given what had happened
RequestsInOrder(reqs, dRes, dText, dBody, lRes, lXml) ==
    /\ \E n \in 0..3 :
          [i \in 1..Len(reqs) |-> reqs[i].type] =
              SubSeq(<<"direct", "list", "track">>, 1, n)
    /\ Len(reqs) >= 2 =>
          /\ dRes.fetch # "none"
          /\ dText = <<>>
          /\ dBody # None => IsBlank(dBody[1])
    /\ Len(reqs) >= 3 =>
          /\ lRes.fetch = "resolves" /\ lRes.status \in 200..299
          /\ lXml # None
          /\ Len(parseCaptionTracks(lXml[1])) >= 1

\* C2: within one call the stages run in the order DirectAttempt, Discover,
\* Select, TrackAttempt and every step moves forward; the direct, listing
\* and track requests are each issued at most once, the listing request
\* only after a direct miss, the track request only after a listing that
\* parsed to at least one track.
C2_StrictStageOrder ==
    [][/\ RequestsInOrder(requests', directRes', directTranscript',
                          directBody', listRes', listXml')
       /\ pc \notin {"idle", "done"} =>
             /\ StageRank(pc') > StageRank(pc)
             /\ event' = event
             /\ Len(requests') \in {Len(requests), Len(requests) + 1}
             /\ SubSeq(requests', 1, Len(requests)) = requests]_vars

C2_Witness ==
    /\ pc = "done"
    /\ ReqTypes = <<"direct", "list", "track">>

\* C3: when the direct fetch succeeds with a body that is not blank, the
\* call ends as DirectHit with the trimmed body as text and lang "en", and
\* only the direct request was issued.
C3_DirectHit ==
    (pc = "done" /\ directBody # None /\ ~IsBlank(directBody[1])) =>
        /\ Outcome(response) = "DirectHit"
        /\ IsTrimOf(response.body.transcript, directBody[1])
        /\ response.body.lang = <<"e", "n">>
        /\ ReqTypes = <<"direct">>

C3_Witness ==
    /\ pc = "done" /\ directBody # None /\ ~IsBlank(directBody[1])
    /\ Outcome(response) = "DirectHit"
    /\ response.body.transcript # directBody[1]

\* the direct fetch has failed: rejected, non-2xx, body unreadable or blank
DirectMissed ==
    \/ directRes.fetch = "throws"
    \/ directRes.fetch = "resolves" /\ directRes.status \notin 200..299
    \/ /\ directRes.fetch = "resolves" /\ pc # "directText"
       /\ directBody = None \/ IsBlank(directBody[1])

\* C4: a failed direct fetch (transport error, non-success status, empty
\* body) never ends the call: the listing request is issued next, so any
\* fault of the call comes from a later stage.
C4_DirectMissIsSoft ==
    DirectMissed =>
        /\ Len(requests) >= 2
        /\ requests[2] = ListRequest(VideoIdOf(event))
        /\ listRes.fetch = "none" => (pc = "listFetch" /\ response = NoResponse)

C4_Witness ==
    /\ directRes.fetch = "throws"
    /\ pc = "listFetch"
    /\ ReqTypes = <<"direct", "list">>

\* C5: when the listing request is answered with a non-2xx status the
\* call ends as ListUnavailable with empty text; nothing is parsed or
\* selected and no track request is issued.
C5_ListNon2xx ==
    (listRes.fetch = "resolves" /\ listRes.status \notin 200..299) =>
        /\ pc = "done"
        /\ response.statusCode = 200
        /\ Outcome(response) = "ListUnavailable"
        /\ response.body.transcript = <<>>
        /\ listXml = None /\ tracks = None /\ bestTrack = None
        /\ ReqTypes = <<"direct", "list">>

C5_Witness ==
    /\ pc = "done"
    /\ listRes.fetch = "resolves" /\ listRes.status = 404
    /\ Outcome(response) = "ListUnavailable"

\* C6: when the listing request fails at the transport level (fetch
\* rejects) the call ends with the normal result ListUnavailable.
C6_ListTransportFailure ==
    (pc = "done" /\ listRes.fetch = "throws") =>
        /\ response.statusCode = 200
        /\ Outcome(response) = "ListUnavailable"

\* the track fetch has failed: rejected, non-2xx, body unreadable or empty
TrackFetchFailed ==
    \/ trackRes.fetch = "throws"
    \/ trackRes.fetch = "resolves" /\ trackRes.status \notin 200..299
    \/ /\ trackRes.fetch = "resolves" /\ pc = "done"
       /\ trackPayload = None \/ trackPayload[1] = <<>>

\* C7: when the track fetch fails in any way (transport error, non-success
\* status, empty body) the call ends as EmptyTrackPayload, never as a fault.
C7_TrackFailureIsSoft ==
    (pc = "done" /\ TrackFetchFailed) =>
        /\ response.statusCode = 200
        /\ Outcome(response) = "EmptyTrackPayload"

\* C8: when the listing is received and parses to zero usable tracks the
\* call ends as NoTracksFound with empty text, and no track request is made.
C8_NoTracksFound ==
    (listXml # None /\ parseCaptionTracks(listXml[1]) = <<>>) =>
        /\ pc = "done"
        /\ response.statusCode = 200
        /\ Outcome(response) = "NoTracksFound"
        /\ response.body.transcript = <<>>
        /\ ReqTypes = <<"direct", "list">>

C8_Witness ==
    /\ pc = "done"
    /\ listXml # None
    /\ \E i \in 1..Len(listXml[1]) :
          listXml[1][i].tag = "track" /\ listXml[1][i].end = "/>"
    /\ Outcome(response) = "NoTracksFound"

\* C9: when the fetch of the selected track yields an empty body the result
\* is EmptyTrackPayload with empty text and the lang and kind of the
\* selected descriptor.
C9_EmptyTrackPayload ==
    (pc = "done" /\ trackPayload # None /\ trackPayload[1] = <<>>) =>
        /\ response.statusCode = 200
        /\ Outcome(response) = "EmptyTrackPayload"
        /\ response.body.transcript = <<>>
        /\ ProvenanceOf(response.body, Selected)

C9_Witness ==
    /\ pc = "done"
    /\ trackRes.fetch = "resolves" /\ trackRes.status = 200
    /\ trackPayload = Some(<<>>)
    /\ Len(tracks[1]) = 2
    /\ Selected = tracks[1][2]
    /\ "kind" \in DOMAIN response.body

\* C10: when the fetch of the selected track yields a body that is not
\* blank the result is TrackHit and its lang, kind and trackName are those
\* of the descriptor the scorer selected.
C10_TrackHitProvenance ==
    (pc = "done" /\ trackPayload # None /\ ~IsBlank(trackPayload[1])) =>
        /\ response.statusCode = 200
        /\ Outcome(response) = "TrackHit"
        /\ IsTrimOf(response.body.transcript, trackPayload[1])
        /\ ProvenanceOf(response.body, Selected)
        /\ response.body.trackName = Selected.name

C10_Witness ==
    /\ pc = "done"
    /\ Outcome(response) = "TrackHit"
    /\ Len(tracks[1]) = 2
    /\ Selected = tracks[1][2]
    /\ tracks[1][1].langCode # tracks[1][2].langCode
    /\ tracks[1][1].name # tracks[1][2].name
    /\ response.body.trackName = tracks[1][2].name

BusinessOutcomes ==
    {"DirectHit", "TrackHit", "NoTracksFound", "EmptyTrackPayload",
     "ListUnavailable"}

\* C11: a call with a non-empty videoId whose network calls have all
\* completed ends in one of the five outcomes DirectHit, TrackHit,
\* NoTracksFound, EmptyTrackPayload, ListUnavailable, whatever the service
\* did; the orchestrator does not raise.
C11_TerminalIsOutcome ==
    (pc = "done" /\ HasVideoId) =>
        /\ response.statusCode = 200
        /\ Outcome(response) \in BusinessOutcomes

\* C12: a call with a missing or empty video identifier returns an explicit
\* failure that is none of the TranscriptResult outcomes, and issues no
\* outbound request.
C12_MissingVideoIdIsFault ==
    (pc = "done" /\ ("videoId" \notin DOMAIN event \/ event.videoId = "")) =>
        /\ response.statusCode = 400
        /\ "error" \in DOMAIN response.body
        /\ "transcript" \notin DOMAIN response.body
        /\ Outcome(response) \notin BusinessOutcomes
        /\ requests = <<>>
        /\ directRes = NoRes /\ listRes = NoRes /\ trackRes = NoRes

C12_Witness ==
    /\ pc = "done"
    /\ event = [videoId |-> ""]
    /\ response.statusCode = 400
    /\ requests = <<>>

\* C13: each non-hit outcome names the stage that failed: ListUnavailable
\* only when the listing request was answered with a failure,
\* NoTracksFound only when the listing was received and parsed to zero
\* tracks, EmptyTrackPayload only when a track was selected and its fetch
\* gave no text.
C13_OutcomeNamesStage ==
    pc = "done" =>
        /\ Outcome(response) = "ListUnavailable" =>
              /\ listRes.fetch = "resolves" /\ listRes.status \notin 200..299
              /\ listXml = None /\ trackRes = NoRes
        /\ Outcome(response) = "NoTracksFound" =>
              /\ listRes.fetch = "resolves" /\ listRes.status \in 200..299
              /\ listXml # None /\ parseCaptionTracks(listXml[1]) = <<>>
              /\ trackRes = NoRes
        /\ Outcome(response) = "EmptyTrackPayload" =>
              /\ listRes.fetch = "resolves" /\ listRes.status \in 200..299
              /\ listXml # None /\ Len(parseCaptionTracks(listXml[1])) >= 1
              /\ bestTrack # None
              /\ ReqTypes = <<"direct", "list", "track">>
              /\ trackRes.fetch = "resolves"
              /\ trackPayload # None /\ IsBlank(trackPayload[1])

C13_Witness ==
    /\ pc = "done"
    /\ Outcome(response) = "EmptyTrackPayload"
    /\ trackRes.fetch = "resolves" /\ trackRes.status = 404
    /\ Len(tracks[1]) = 2

\* an exactly preferred language and no kind (none, or an empty one)
PreferredNoKind(t) ==
    /\ t.langCode \in {<<"e", "n">>, <<"e", "n", "-", "U", "S">>,
                       <<"e", "n", "-", "G", "B">>}
    /\ "kind" \notin DOMAIN t \/ t.kind = <<>>

\* C14: when the descriptors contain a track with an exactly preferred
\* language and no kind, pickBestTrack selects such a track, never an
\* automatic or a non-English one.
C14_PreferredAuthoredWins ==
    (pc = "picked" /\ \E i \in 1..Len(tracks[1]) : PreferredNoKind(tracks[1][i]))
        => /\ bestTrack # None
           /\ PreferredNoKind(bestTrack[1])
           /\ \E i \in 1..Len(tracks[1]) : bestTrack[1] = tracks[1][i]

C14_Witness ==
    /\ pc = "picked"
    /\ Len(tracks[1]) = 2
    /\ tracks[1][1].langCode = <<"e", "n">>
    /\ "kind" \in DOMAIN tracks[1][1] /\ tracks[1][1].kind = <<"a", "s", "r">>
    /\ PreferredNoKind(tracks[1][2])
    /\ bestTrack = Some(tracks[1][2])

\* the highest score among the descriptors
MaxScore(ts) ==
    CHOOSE m \in {scoreTrack(ts[i]) : i \in 1..Len(ts)} :
        \A i \in 1..Len(ts) : scoreTrack(ts[i]) <= m

\* the first position that has the highest score
FirstBest(ts) ==
    CHOOSE i \in 1..Len(ts) :
        /\ scoreTrack(ts[i]) = MaxScore(ts)
        /\ \A j \in 1..(i - 1) : scoreTrack(ts[j]) # MaxScore(ts)

\* C15: when several descriptors share the highest score, pickBestTrack
\* selects the one that comes first in the input.
C15_TieBreakFirstListed ==
    (pc = "picked" /\ Len(tracks[1]) >= 1)
        => bestTrack = Some(tracks[1][FirstBest(tracks[1])])

C15_Witness ==
    /\ pc = "picked"
    /\ Len(tracks[1]) = 2
    /\ scoreTrack(tracks[1][1]) = scoreTrack(tracks[1][2])
    /\ tracks[1][1] # tracks[1][2]
    /\ bestTrack = Some(tracks[1][1])

\* C16: from a non-empty sequence pickBestTrack returns exactly one
\* descriptor, an element of the input whose score is at least that of
\* every element; from an empty sequence it returns no selection.
C16_SelectsOneMaximal ==
    pc = "picked" =>
        IF tracks[1] = <<>> THEN bestTrack = None
        ELSE /\ Len(bestTrack) = 1
             /\ \E i \in 1..Len(tracks[1]) : tracks[1][i] = bestTrack[1]
             /\ \A j \in 1..Len(tracks[1]) :
                   scoreTrack(bestTrack[1]) >= scoreTrack(tracks[1][j])

C16_Witness ==
    /\ pc = "picked"
    /\ Len(tracks[1]) = 2
    /\ scoreTrack(tracks[1][1]) < scoreTrack(tracks[1][2])
    /\ bestTrack = Some(tracks[1][2])

FrenchAuthored == [langCode |-> <<"f", "r">>, name |-> <<>>]

AmericanAutomatic ==
    [langCode |-> <<"e", "n", "-", "U", "S">>, name |-> <<>>,
     kind |-> <<"a", "s", "r">>]

\* the direct fetch missed, the listing parsed to [fr without kind, en-US
\* automatic] and the fetch of the selected track gave text
ScenarioFrThenEnUS ==
    /\ pc = "done"
    /\ directTranscript = <<>>
    /\ tracks = Some(<<FrenchAuthored, AmericanAutomatic>>)
    /\ trackPayload # None /\ ~IsBlank(trackPayload[1])

\* what the scenario ends in: the en-US track is picked and reported
ScenarioResult ==
    /\ bestTrack = Some(AmericanAutomatic)
    /\ Outcome(response) = "TrackHit"
    /\ response.body.lang = <<"e", "n", "-", "U", "S">>
    /\ "kind" \in DOMAIN response.body
    /\ response.body.kind = <<"a", "s", "r">>

\* C17 as stated: in the scenario the en-US automatic track scores 160
\* (150+10) and the French track 70 (50+20); the en-US track is picked and
\* the result is TrackHit with languageCode en-US and trackKind automatic.
C17_ScenarioScores160 ==
    ScenarioFrThenEnUS =>
        /\ scoreTrack(tracks[1][2]) = 160
        /\ scoreTrack(tracks[1][1]) = 70
        /\ ScenarioResult

\* C17 amended: in the scenario the en-US automatic track scores 210
\* (200+10, en-US being an exactly preferred language) and the French
\* track 70 (50+20); the en-US track is picked and the result is TrackHit
\* with languageCode en-US and trackKind automatic.
C17_ScenarioScores210 ==
    ScenarioFrThenEnUS =>
        /\ scoreTrack(tracks[1][2]) = 210
        /\ scoreTrack(tracks[1][1]) = 70
        /\ ScenarioResult

C17_Witness ==
    /\ ScenarioFrThenEnUS
    /\ trackRes.status = 200
    /\ response.statusCode = 200
    /\ "trackName" \in DOMAIN response.body

\* a track element without a language code, or with an empty one
LanglessTrack(e) ==
    /\ e.tag = "track"
    /\ ~\E i \in 1..Len(e.attrs) :
          e.attrs[i].key = "lang_code" /\ e.attrs[i].value # <<>>

RemoveAt(doc, i) == SubSeq(doc, 1, i - 1) \o SubSeq(doc, i + 1, Len(doc))

\* C18: every descriptor parseCaptionTracks produces has a non-empty
\* language code, and a document that contains a track element without a
\* language code parses to the same sequence as the document with that
\* element removed.
C18_LanglessTrackIsAbsent ==
    pc = "parsed" =>
        /\ \A k \in 1..Len(tracks[1]) : tracks[1][k].langCode # <<>>
        /\ \A i \in 1..Len(listXml[1]) :
              LanglessTrack(listXml[1][i]) =>
                  tracks[1] = parseCaptionTracks(RemoveAt(listXml[1], i))

\* the payload a hit was made from
HitPayload ==
    IF Outcome(response) = "DirectHit" THEN directBody[1] ELSE trackPayload[1]

IsHit == pc = "done" /\ Outcome(response) \in {"DirectHit", "TrackHit"}

\* C19 as stated: every returned text is trimmed and has every internal run
\* of white space collapsed, so it never has two white space characters in
\* a row.
C19_WhitespaceCollapsed ==
    IsHit =>
        LET t == response.body.transcript
        IN  /\ t[1] \notin Whitespace /\ t[Len(t)] \notin Whitespace
            /\ \A i \in 1..(Len(t) - 1) :
                  ~(t[i] \in Whitespace /\ t[i + 1] \in Whitespace)

\* C19 amended: every returned text, from the direct fetch and from the
\* track fetch, is the payload with its leading and trailing white space
\* removed; white space inside the text is returned as received.
C19_TextIsTrimmedPayload ==
    IsHit => IsTrimOf(response.body.transcript, HitPayload)

C19_Witness ==
    /\ IsHit
    /\ Outcome(response) = "TrackHit"
    /\ \E i \in 1..(Len(response.body.transcript) - 1) :
          /\ response.body.transcript[i] \in Whitespace
          /\ response.body.transcript[i + 1] \in Whitespace

\* the response of an invocation that runs alone and is answered dRes and
\* dBody by the direct request, lRes and lXml by the listing request, tRes
\* and tPayload by the track request
ResultAlone(ev, dRes, dBody, lRes, lXml, tRes, tPayload) ==
    IF "videoId" \notin DOMAIN ev \/ ev.videoId = "" THEN MissingVideoId
    ELSE IF dBody # None /\ ~IsBlank(dBody[1])
    THEN DirectHitResponse(Trim(dBody[1]))
    ELSE IF lRes.fetch = "throws" THEN FailedResponse
    ELSE IF lRes.status \notin 200..299 THEN ListFailedResponse(lRes)
    ELSE IF lXml = None THEN FailedResponse
    ELSE LET best == pickBestTrack(parseCaptionTracks(lXml[1]))
         IN  IF best = None THEN NoTracksResponse
             ELSE IF tRes.fetch = "throws" THEN FailedResponse
             ELSE IF tRes.status \notin 200..299
             THEN EmptyCaptionsResponse(best[1])
             ELSE IF tPayload = None THEN FailedResponse
             ELSE IF IsBlank(tPayload[1]) THEN EmptyCaptionsResponse(best[1])
             ELSE TrackHitResponse(Trim(tPayload[1]), best[1])

ResultAloneOf(call) ==
    ResultAlone(call.event, call.directRes, call.directBody, call.listRes,
                call.listXml, call.trackRes, call.trackPayload)

\* C21: two invocations for different video ids do not affect each other:
\* under every interleaving of their network calls, the response of each is
\* the response it would give alone to the same answers of the service.
C21_CallsAreIndependent ==
    /\ \A call \in {Locals, parked} :
          /\ call.pc = "done" => call.response = ResultAloneOf(call)
          /\ call.pc \in {"trackFetch", "trackText"} =>
                call.bestTrack =
                    pickBestTrack(parseCaptionTracks(call.listXml[1]))
          /\ \A i \in 1..Len(call.requests) :
                call.requests[i].params.v = call.event.videoId
    /\ (pc # "idle" /\ parked.pc # "idle") =>
           VideoIdOf(event) # VideoIdOf(parked.event)

C21_Witness ==
    /\ pc = "done" /\ parked.pc = "trackText"
    /\ Outcome(response) = "TrackHit"
    /\ bestTrack # parked.bestTrack
    /\ Len(requests) = 3 /\ Len(parked.requests) = 3
    /\ requests[3].params.v # parked.requests[3].params.v

\* the subtag of a language code in front of its first "-"
PrimarySubtag(lang) ==
    LET dashes == {i \in 1..Len(lang) : lang[i] = "-"}
    IN  IF dashes = {} THEN lang
        ELSE SubSeq(lang, 1, (CHOOSE i \in dashes : \A j \in dashes : i <= j) - 1)

\* the language base the tiers give a track
LanguageBase(t) ==
    IF t.langCode \in {<<"e", "n">>, <<"e", "n", "-", "U", "S">>,
                       <<"e", "n", "-", "G", "B">>} THEN 200
    ELSE IF PrimarySubtag(t.langCode) = <<"e", "n">> THEN 150
    ELSE 50

\* the bonus the authoring tier gives a track
AuthoringBonus(t) ==
    IF "kind" \notin DOMAIN t \/ t.kind = <<>> THEN 20
    ELSE IF t.kind = <<"a", "s", "r">> THEN 10
    ELSE 0

\* C22: the language tier of scoreTrack: base 200 for a language code that
\* is exactly a preferred language, base 150 for another code whose
\* primary subtag is "en" (en-*), base 50 for every other code, those
\* with a primary subtag other than "en" included.
C22_LanguageTier ==
    pc = "picked" =>
        \A i \in 1..Len(tracks[1]) :
            scoreTrack(tracks[1][i]) \in
                {LanguageBase(tracks[1][i]) + b : b \in {0, 10, 20}}

\* C23: the authoring tier of scoreTrack: +20 for a track with no kind, +10
\* for kind asr, +0 for any other kind, on top of a language base that
\* depends on the language code alone; every score is one of the nine sums
\* of a base in {200, 150, 50} and a bonus in {20, 10, 0}.
C23_AuthoringTier ==
    pc = "picked" =>
        \A i \in 1..Len(tracks[1]) :
            LET t == tracks[1][i]
            IN  /\ scoreTrack(t) - AuthoringBonus(t) \in {200, 150, 50}
                /\ scoreTrack(t) \in {220, 210, 200, 170, 160, 150, 70, 60, 50}
                /\ \A j \in 1..Len(tracks[1]) :
                      tracks[1][j].langCode = t.langCode =>
                          scoreTrack(tracks[1][j]) - AuthoringBonus(tracks[1][j])
                              = scoreTrack(t) - AuthoringBonus(t)

C23_Witness ==
    /\ pc = "picked"
    /\ Len(tracks[1]) = 2
    /\ tracks[1][1].langCode = tracks[1][2].langCode
    /\ "kind" \in DOMAIN tracks[1][1]
    /\ tracks[1][1].kind = <<"f", "o", "r", "c", "e", "d">>
    /\ "kind" \in DOMAIN tracks[1][2] /\ tracks[1][2].kind = <<"a", "s", "r">>
    /\ scoreTrack(tracks[1][1]) = 150
    /\ scoreTrack(tracks[1][2]) = 160
    /\ bestTrack = Some(tracks[1][2])

SameKind(a, b) ==
    /\ ("kind" \in DOMAIN a) <=> ("kind" \in DOMAIN b)
    /\ "kind" \in DOMAIN a => a.kind = b.kind

\* C24: the score is a function of language code and kind alone: two
\* descriptors with the same language code and the same kind get the same
\* score whatever their name, their vss_id and their place in the listing.
C24_ScoreOfLangAndKind ==
    pc = "picked" =>
        \A i, j \in 1..Len(tracks[1]) :
            (/\ tracks[1][i].langCode = tracks[1][j].langCode
             /\ SameKind(tracks[1][i], tracks[1][j]))
                => scoreTrack(tracks[1][i]) = scoreTrack(tracks[1][j])

C24_Witness ==
    /\ pc = "picked"
    /\ Len(tracks[1]) = 2
    /\ tracks[1][1].langCode = tracks[1][2].langCode
    /\ SameKind(tracks[1][1], tracks[1][2])
    /\ tracks[1][1].name # tracks[1][2].name
    /\ "vssId" \in DOMAIN tracks[1][2] /\ "vssId" \notin DOMAIN tracks[1][1]
    /\ bestTrack = Some(tracks[1][1])

\* the values of attribute key of element e, in order
AttrValues(e, key) ==
    LET idx == {i \in 1..Len(e.attrs) : e.attrs[i].key = key}
    IN  {e.attrs[i].value : i \in idx}

\* a track element that is complete and has a language code
WellFormedTrack(e) ==
    /\ e.tag = "track" /\ e.end = "/>"
    /\ \E v \in AttrValues(e, "lang_code") : v # <<>>

\* the descriptor of a well-formed track element
ElemDescriptor(e) ==
    [langCode |-> CHOOSE v \in AttrValues(e, "lang_code") : TRUE,
     name     |-> IF AttrValues(e, "name") = {} THEN <<>>
                  ELSE CHOOSE v \in AttrValues(e, "name") : TRUE]
    @@ (IF AttrValues(e, "kind") = {} THEN [k \in {} |-> <<>>]
        ELSE "kind" :> (CHOOSE v \in AttrValues(e, "kind") : TRUE))

\* the descriptors of the well-formed track elements of doc, in order
RECURSIVE WellFormedDescriptors(_)
WellFormedDescriptors(doc) ==
    IF doc = <<>> THEN <<>>
    ELSE (IF WellFormedTrack(Head(doc)) THEN <<ElemDescriptor(Head(doc))>>
          ELSE <<>>) \o WellFormedDescriptors(Tail(doc))

\* ts takes its language codes, in order and one element each, from doc
InDocumentOrder(ts, doc) ==
    \E f \in [1..Len(ts) -> 1..Len(doc)] :
        /\ \A k \in 1..(Len(ts) - 1) : f[k] < f[k + 1]
        /\ \A k \in 1..Len(ts) : ts[k].langCode \in AttrValues(doc[f[k]], "lang_code")

\* C25: parseCaptionTracks keeps the order of the document: the
\* descriptors come in the order of the elements they are made from, none
\* twice and none out of place; a document of well-formed track elements
\* parses to their descriptors one for one.
C25_ParseKeepsOrder ==
    pc = "parsed" =>
        /\ InDocumentOrder(tracks[1], listXml[1])
        /\ (\A i \in 1..Len(listXml[1]) : WellFormedTrack(listXml[1][i])) =>
               tracks[1] = [i \in 1..Len(listXml[1]) |->
                               ElemDescriptor(listXml[1][i])]

C25_Witness ==
    /\ pc = "parsed"
    /\ Len(listXml[1]) = 2 /\ Len(tracks[1]) = 2
    /\ tracks[1][1].langCode # tracks[1][2].langCode
    /\ tracks[1][1].langCode \in AttrValues(listXml[1][1], "lang_code")
    /\ "kind" \in DOMAIN tracks[1][2] /\ "kind" \notin DOMAIN tracks[1][1]

\* C26: parseCaptionTracks skips every element that is unknown or
\* malformed and leaves the descriptors of the well-formed track elements
\* around it as they are: the result is the descriptors of the well-formed
\* track elements, and the empty sequence when there is none.
C26_MalformedIsSkipped ==
    pc = "parsed" => tracks[1] = WellFormedDescriptors(listXml[1])

\* the positions of the track requests among the requests issued
TrackRequestsAt == {i \in 1..Len(requests) : requests[i].type = "track"}

\* C27: the track fetch issues exactly one request; its parameters are the
\* video id, the format vtt and the language code of the selected
\* descriptor, the kind exactly when the descriptor has a kind that is not
\* empty, and the name exactly when it has a name that is not empty.
C27_TrackRequestParams ==
    /\ Cardinality(TrackRequestsAt) <= 1
    /\ (bestTrack # None) <=> (TrackRequestsAt # {})
    /\ \A i \in TrackRequestsAt :
          LET p == requests[i].params
              t == Selected
          IN  /\ {"v", "fmt", "lang"} \subseteq DOMAIN p
              /\ DOMAIN p \subseteq {"v", "fmt", "lang", "kind", "name"}
              /\ p.v = event.videoId
              /\ p.fmt = <<"v", "t", "t">>
              /\ p.lang = t.langCode
              /\ ("kind" \in DOMAIN p) <=>
                     ("kind" \in DOMAIN t /\ t.kind # <<>>)
              /\ "kind" \in DOMAIN p => p.kind = t.kind
              /\ ("name" \in DOMAIN p) <=> (t.name # <<>>)
              /\ "name" \in DOMAIN p => p.name = t.name

C27_Witness ==
    /\ pc = "trackFetch"
    /\ TrackRequestsAt = {3}
    /\ DOMAIN requests[3].params = {"v", "fmt", "lang", "kind", "name"}
    /\ requests[3].params.kind = <<"a", "s", "r">>
    /\ requests[3].params.name = bestTrack[1].name

\* C28: while a learning session is shown, the index is one of the
\* positions 0 .. queue.length - 1 of the queue, so that a card is shown,
\* whatever the order of key presses, swipes, clicks and delayed callbacks.
C28_CardAlwaysShown ==
    appState = "learning" =>
        0 <= index /\ index <= Len(learningQueue) - 1

\* a call of handleAnalyze made before the last one ends
StaleCompletion(call) ==
    /\ BagIn(call, analyses)
    /\ ~call.latest
    /\ analyses' = analyses (-) SetToBag({call})

\* C29: when a call of handleAnalyze ends after a later call was made, it
\* replaces neither the analysis shown nor the screen the later call set.
C29_LatestAnalysisWins ==
    [][\A call \in BagToSet(analyses) :
          StaleCompletion(call) => UNCHANGED <<analysisResult, appState>>]_vars

\* the words of a vocabulary that have a level, in the order they have there
RECURSIVE WordsOfLevel(_, _)
WordsOfLevel(vocabulary, level) ==
    IF vocabulary = <<>> THEN <<>>
    ELSE (IF level = "All" \/ Head(vocabulary).difficulty = level
          THEN <<Head(vocabulary)>> ELSE <<>>)
         \o WordsOfLevel(Tail(vocabulary), level)

\* C30: on the dashboard and in a learning session there is an analysis; in
\* a learning session the queue is not empty and holds exactly the words of
\* the analysis that have one level, or all its words, in their order.
C30_ScreensHaveTheirData ==
    /\ appState \in {"dashboard", "learning"} => analysisResult # None
    /\ appState = "learning" =>
          /\ analysisResult # None
          /\ learningQueue # <<>>
          /\ \E level \in Difficulties \cup {"All"} :
                learningQueue =
                    WordsOfLevel(analysisResult[1].vocabulary, level)

C30_Witness ==
    /\ appState = "learning"
    /\ analysisResult # None
    /\ Len(analysisResult[1].vocabulary) = 2
    /\ learningQueue = <<analysisResult[1].vocabulary[2]>>
    /\ learningQueue[1].difficulty = "Beginner"

\* C31: in a learning session the undo history is strictly increasing and
\* every entry of it is less than the current index.
C31_HistoryIsAStack ==
    appState = "learning" =>
        \A i \in 1..Len(history) :
            /\ history[i] < index
            /\ i > 1 => history[i - 1] < history[i]

\* the ways the AI call of handleAnalyze fails
Failures == {resp \in AiResponses : resp.kind # "json"}

\* C32: when the AI call of an analysis throws, returns no text or returns
\* text that is not JSON, the app goes to the input screen with an error
\* message and keeps the analysis and the learning queue it had; and the
\* app shows 'processing' only while an AI call has not completed.
C32_FailureHandling ==
    /\ [][\A call \in BagToSet(analyses), resp \in Failures :
             AnalysisReturns(call, resp) =>
                 /\ appState' = "input"
                 /\ error' # None
                 /\ UNCHANGED <<analysisResult, learningQueue>>]_vars
    /\ [](appState = "processing" => analyses # EmptyBag)

\* an analysis has failed after an earlier one had been learned from
C32_Witness ==
    /\ appState = "input"
    /\ error = Some("Analysis failed. Please try again. Unexpected token")
    /\ analysisResult # None
    /\ learningQueue # <<>>

\* the difficulties of the lists that hold a word
ListDifficulties(w) ==
    (IF w \in CET4_WORDS THEN {"Beginner"} ELSE {})
    \cup (IF w \in CET6_WORDS THEN {"Intermediate"} ELSE {})
    \cup (IF w \in ADVANCED_WORDS THEN {"Advanced"} ELSE {})

\* the lowest of some difficulties, Intermediate if there is none
LowestOf(ds) ==
    IF "Beginner" \in ds THEN "Beginner"
    ELSE IF "Intermediate" \in ds THEN "Intermediate"
    ELSE IF "Advanced" \in ds THEN "Advanced"
    ELSE "Intermediate"

\* C33: after a successful analysis every word of the vocabulary has the
\* difficulty of the lowest local list that holds the lower-cased word
\* (CET4 Beginner, CET6 Intermediate, advanced Advanced), Intermediate if
\* none holds it, whatever the AI said; words that differ only in letter
\* case have the same difficulty.
C33_LocalDifficulty ==
    analysisResult # None =>
        LET v == analysisResult[1].vocabulary
        IN  /\ \A i \in 1..Len(v) :
                  v[i].difficulty =
                      LowestOf(ListDifficulties(ToLowerCase(v[i].word)))
            /\ \A i, j \in 1..Len(v) :
                  ToLowerCase(v[i].word) = ToLowerCase(v[j].word) =>
                      v[i].difficulty = v[j].difficulty

\* a word of two lists, once in capitals, has been graded
C33_Witness ==
    /\ analysisResult # None
    /\ analysisResult[1].vocabulary =
          <<[word |-> <<"C", "H", "A", "O", "S">>, difficulty |-> "Beginner"],
            [word |-> Str_chaos, difficulty |-> "Beginner"]>>

\* an exception has left the listing or the track stage: a fetch or a
\* text() of one of them was rejected
StageThrew ==
    \/ listRes.fetch = "throws"
    \/ listRes.fetch = "resolves" /\ Ok(listRes) /\ listXml = None
    \/ trackRes.fetch = "throws"
    \/ trackRes.fetch = "resolves" /\ Ok(trackRes) /\ trackPayload = None

\* C34: the status of a finished call is 400 exactly when the videoId is
\* missing or empty, 200 with one of the five outcomes when no exception
\* left a stage, and 500 only when one did; a 200 response has a
\* transcript field, a 400 or 500 response has none.
C34_StatusMapping ==
    pc = "done" =>
        /\ response.statusCode \in {200, 400, 500}
        /\ response.statusCode = 400 <=> ~HasVideoId
        /\ (HasVideoId /\ ~StageThrew) =>
              /\ response.statusCode = 200
              /\ Outcome(response) \in BusinessOutcomes
        /\ Outcome(response) \in BusinessOutcomes => response.statusCode = 200
        /\ response.statusCode = 500 => HasVideoId /\ StageThrew
        /\ response.statusCode = 200 <=> "transcript" \in DOMAIN response.body

\* the text() of the track response was rejected
C34_Witness ==
    /\ pc = "done"
    /\ response.statusCode = 500
    /\ trackRes.fetch = "resolves" /\ Ok(trackRes) /\ trackPayload = None
    /\ "transcript" \notin DOMAIN response.body

\* what the direct-only handler returns for the event and the answers to
\* the direct request of the call
LegacyResponse == LegacyHandler(event, directRes, directBody)

\* C35: for the same video id and the same answers of the service, when the
\* direct-only handler returns status 200 with a non-empty transcript the
\* orchestrator returns DirectHit with the same transcript, and the other
\* way round; the two differ in status or transcript only where the direct
\* fetch has missed.
C35_RefinesDirectOnly ==
    pc = "done" =>
        /\ (LegacyResponse.statusCode = 200 /\ TextOf(LegacyResponse) # <<>>) =>
              /\ response.statusCode = 200
              /\ Outcome(response) = "DirectHit"
              /\ response.body.transcript = LegacyResponse.body.transcript
        /\ Outcome(response) = "DirectHit" =>
              /\ LegacyResponse.statusCode = 200
              /\ LegacyResponse.body.transcript = response.body.transcript
        /\ (\/ response.statusCode # LegacyResponse.statusCode
            \/ TextOf(response) # TextOf(LegacyResponse)) =>
              HasVideoId /\ DirectMissed

\* both handlers have answered with the body of the direct request, trimmed
C35_Witness ==
    /\ pc = "done"
    /\ Outcome(response) = "DirectHit"
    /\ LegacyResponse.statusCode = 200
    /\ directBody[1] # response.body.transcript
    /\ response.body.transcript = LegacyResponse.body.transcript

====
